---- MODULE Spec2Model ----
(***************************************************************************)
(* Model of Boards.h, the hardware abstraction layer of BLE Firmata:       *)
(* the board profiles (pin counts, capability predicates, index            *)
(* translators) and the two port primitives readPort and writePort.        *)
(*                                                                         *)
(* Three specifications share the variables:                               *)
(*   Spec      one writePort / readPort call on every board profile, each  *)
(*             call one atomic action (single-threaded use);               *)
(*   SpecIsr   the register path of writePort, one step per statement,     *)
(*             interleaved with an interrupt handler;                      *)
(*   SpecPins  the capability predicates and translators applied to a pin. *)
(***************************************************************************)
EXTENDS Integers, FiniteSets

VARIABLES board, hw, pre, port, value, bitmask, pc, I, preI, out,
          tmp, serial, isrCount, MAX_SERVOS, hasPWM, cls

vars == <<board, hw, pre, port, value, bitmask, pc, I, preI, out,
          tmp, serial, isrCount, MAX_SERVOS, hasPWM, cls>>

(***************************************************************************)
(* Bounds of the model.                                                    *)
(***************************************************************************)
\* bitmask arguments have at most MaxMaskBits bits set, or at most that many clear
MaxMaskBits == 1
\* value arguments have at most MaxValueBits bits set, or at most that many clear
MaxValueBits == 1
\* interrupt handler runs per writePort call
MaxIsr == 1
\* largest MAX_SERVOS tried (Servo.h gives 12 on ATmega328 boards)
MaxServosTried == 13

(***************************************************************************)
(* byte arithmetic (uint8_t operands, int promotion, truncation on store)  *)
(***************************************************************************)
Byte == 0..255

Bit(x, i) == (x \div (2^i)) % 2

\* x & y on 8-bit operands
And8(x, y) ==
    Bit(x,0)*Bit(y,0) + 2*Bit(x,1)*Bit(y,1) + 4*Bit(x,2)*Bit(y,2)
    + 8*Bit(x,3)*Bit(y,3) + 16*Bit(x,4)*Bit(y,4) + 32*Bit(x,5)*Bit(y,5)
    + 64*Bit(x,6)*Bit(y,6) + 128*Bit(x,7)*Bit(y,7)

OrBit(a, b) == IF a + b > 0 THEN 1 ELSE 0

\* x | y on 8-bit operands
Or8(x, y) ==
    OrBit(Bit(x,0),Bit(y,0)) + 2*OrBit(Bit(x,1),Bit(y,1))
    + 4*OrBit(Bit(x,2),Bit(y,2)) + 8*OrBit(Bit(x,3),Bit(y,3))
    + 16*OrBit(Bit(x,4),Bit(y,4)) + 32*OrBit(Bit(x,5),Bit(y,5))
    + 64*OrBit(Bit(x,6),Bit(y,6)) + 128*OrBit(Bit(x,7),Bit(y,7))

\* byte m = ~x : the int complement stored into a byte
Not8(x) == 255 - (x % 256)

\* x << n and x >> n on a promoted int; ToByte is the store into a byte
Shl(x, n) == x * (2^n)
Shr(x, n) == x \div (2^n)
ToByte(x) == x % 256

PopCount(x) ==
    Bit(x,0) + Bit(x,1) + Bit(x,2) + Bit(x,3)
    + Bit(x,4) + Bit(x,5) + Bit(x,6) + Bit(x,7)

\* the bytes with at most k bits set or at most k bits clear
Sparse(k) == {b \in Byte : PopCount(b) <= k \/ PopCount(b) >= 8 - k}

Masks == Sparse(MaxMaskBits)
Values == Sparse(MaxValueBits)
\* all bits clear, all bits set: the register contents before a call, and the
\* value arguments of SpecIsr (what is written matters there only through the
\* bitmask)
InitBytes == {0, 255}

(***************************************************************************)
(* Board profiles                                                          *)
(***************************************************************************)
\* "uno6": ATmega168/328, NUM_ANALOG_INPUTS == 6; "uno8": ATmega168/328
\* otherwise; "mega": ATmega1280/2560
Boards == {"uno6", "uno8", "mega"}

ATmega328(b) == b \in {"uno6", "uno8"}

TOTAL_ANALOG_PINS ==
    IF board = "uno6" THEN 6 ELSE IF board = "uno8" THEN 8 ELSE 16

TOTAL_PINS ==
    IF board = "uno6" THEN 16 ELSE IF board = "uno8" THEN 22 ELSE 70

TOTAL_PORTS == (TOTAL_PINS + 7) \div 8

\* #define ARDUINO_PINOUT_OPTIMIZE 0 : defined on the ATmega168/328 profiles only
ARDUINO_PINOUT_OPTIMIZE_defined == ATmega328(board)

IS_PIN_DIGITAL(p) ==
    IF ATmega328(board)
    THEN (p >= 3 /\ p <= 8) \/ (p >= 14 /\ p <= 19)
    ELSE p >= 2 /\ p < TOTAL_PINS

IS_PIN_ANALOG(p) ==
    IF ATmega328(board)
    THEN p >= 14 /\ p < 14 + TOTAL_ANALOG_PINS
    ELSE p >= 54 /\ p < TOTAL_PINS

\* digitalPinHasPWM: the platform's macro when the platform defines one
\* (hasPWM.defined, true of the pins hasPWM.pins), else IS_PIN_DIGITAL
digitalPinHasPWM(p) ==
    IF hasPWM.defined THEN p \in hasPWM.pins ELSE IS_PIN_DIGITAL(p)

IS_PIN_PWM(p) == digitalPinHasPWM(p)

IS_PIN_SERVO(p) ==
    IF ATmega328(board)
    THEN IS_PIN_DIGITAL(p) /\ p - 2 < MAX_SERVOS
    ELSE p >= 2 /\ p - 2 < MAX_SERVOS

IS_PIN_I2C(p) ==
    IF ATmega328(board) THEN p = 18 \/ p = 19 ELSE p = 20 \/ p = 21

PIN_TO_DIGITAL(p) == p

PIN_TO_ANALOG(p) == IF ATmega328(board) THEN p - 14 ELSE p - 54

PIN_TO_PWM(p) == PIN_TO_DIGITAL(p)

PIN_TO_SERVO(p) == p - 2

(***************************************************************************)
(* Hardware state.  hw is a record: PORTD, PORTB, PORTC are the output     *)
(* registers of the ATmega168/328 (PORTD bit k = pin k, PORTB bit k = pin  *)
(* 8+k, PORTC bit k = pin 14+k); pins holds the output level of each       *)
(* native pin of the ATmega1280/2560, which the code reaches only through  *)
(* digitalWrite and digitalRead.                                           *)
(***************************************************************************)
NativePins == IF ATmega328(board) THEN 0..19 ELSE 0..69

SetBit(reg, k, v) == reg - Bit(reg, k) * (2^k) + v * (2^k)

\* digitalRead(pin): the level of the native pin (HIGH = 1, LOW = 0)
digitalRead(h, p) ==
    IF ATmega328(board)
    THEN IF p >= 0 /\ p <= 7 THEN Bit(h.PORTD, p)
         ELSE IF p >= 8 /\ p <= 13 THEN Bit(h.PORTB, p - 8)
         ELSE IF p >= 14 /\ p <= 19 THEN Bit(h.PORTC, p - 14)
         ELSE 0
    ELSE IF p \in DOMAIN h.pins THEN h.pins[p] ELSE 0

\* digitalWrite(pin, val): val is a uint8_t, LOW clears the pin, anything else sets it
digitalWrite(h, p, val) ==
    LET v == IF ToByte(val) = 0 THEN 0 ELSE 1 IN
    IF ATmega328(board)
    THEN IF p >= 0 /\ p <= 7 THEN [h EXCEPT !.PORTD = SetBit(@, p, v)]
         ELSE IF p >= 8 /\ p <= 13 THEN [h EXCEPT !.PORTB = SetBit(@, p - 8, v)]
         ELSE IF p >= 14 /\ p <= 19 THEN [h EXCEPT !.PORTC = SetBit(@, p - 14, v)]
         ELSE h
    ELSE IF p \in DOMAIN h.pins THEN [h EXCEPT !.pins[p] = v] ELSE h

(***************************************************************************)
(* readPort                                                                *)
(***************************************************************************)
\* ReadBit with the bitmask test left out
ReadBit_NoMask(h, pin, m, i) ==
    IF IS_PIN_DIGITAL(pin + i) /\ digitalRead(h, PIN_TO_DIGITAL(pin + i)) # 0
    THEN 2^i ELSE 0

\* one line of readPort: the bit it ORs into out
ReadBit(h, pin, m, i) ==
    IF /\ IS_PIN_DIGITAL(pin + i)
       /\ And8(m, 2^i) # 0
       /\ digitalRead(h, PIN_TO_DIGITAL(pin + i)) # 0
    THEN 2^i ELSE 0

readPort(h, pt, m) ==
    LET pin == ToByte(pt * 8)
        o0 == 0
        o1 == Or8(o0, ReadBit(h, pin, m, 0))
        o2 == Or8(o1, ReadBit(h, pin, m, 1))
        o3 == Or8(o2, ReadBit(h, pin, m, 2))
        o4 == Or8(o3, ReadBit(h, pin, m, 3))
        o5 == Or8(o4, ReadBit(h, pin, m, 4))
        o6 == Or8(o5, ReadBit(h, pin, m, 5))
        o7 == Or8(o6, ReadBit(h, pin, m, 6))
    IN  Or8(o7, ReadBit(h, pin, m, 7))

(***************************************************************************)
(* writePort, register path (#if defined(ARDUINO_PINOUT_OPTIMIZE))         *)
(***************************************************************************)
\* port 0: bitmask = bitmask & 0xFC
bitmask0(m) == And8(m, 252)
valD(v, m) == And8(v, bitmask0(m))
maskD(m) == Not8(bitmask0(m))

\* port 1
valB(v, m) == And8(And8(v, m), 63)
valC1(v, m) == ToByte(Shr(And8(v, m), 6))
maskB(m) == Not8(And8(m, 63))
\* maskC of port 1 taken from the whole bitmask, unshifted
maskC1_NoShift(m) == Not8(m)
maskC1(m) == Not8(Shr(And8(m, 192), 6))

\* port 2: bitmask = bitmask & 0x0F
bitmask2(m) == And8(m, 15)
\* valC of port 2 without the << 2
valC2_NoShift(v, m) == And8(v, bitmask2(m))
valC2(v, m) == ToByte(Shl(And8(v, bitmask2(m)), 2))
maskC2(m) == Not8(Shl(bitmask2(m), 2))

\* REG = (REG & mask) | val, from the value r read from the register
Rmw(r, mask, val) == Or8(And8(r, mask), val)

\* a cli() that leaves the flag as it is
cli_Missing(sreg) == sreg
\* cli() clears and sei() sets the global interrupt enable flag
cli(sreg) == 0
sei(sreg) == 1

writePortFast(h, pt, v, m) ==
    IF pt = 0
    THEN [h EXCEPT !.PORTD = Rmw(@, maskD(m), valD(v, m))]
    ELSE IF pt = 1
    THEN [h EXCEPT !.PORTB = Rmw(@, maskB(m), valB(v, m)),
                   !.PORTC = Rmw(@, maskC1(m), valC1(v, m))]
    ELSE IF pt = 2
    THEN [h EXCEPT !.PORTC = Rmw(@, maskC2(m), valC2(v, m))]
    ELSE h

\* the interrupt flag after the register path: cli() ... sei() on ports 0..2
FlagAfterFast(sreg, pt) == IF pt \in 0..2 THEN sei(cli(sreg)) ELSE sreg

(***************************************************************************)
(* writePort, bit-by-bit path (#else)                                      *)
(***************************************************************************)
\* the loop body for one i
LoopBody(h, pin, v, m, i) ==
    IF And8(m, Shl(1, i)) # 0
    THEN IF IS_PIN_DIGITAL(pin + i)
         THEN digitalWrite(h, PIN_TO_DIGITAL(pin + i), And8(v, Shl(1, i)))
         ELSE h
    ELSE h

RECURSIVE LoopFrom(_, _, _, _, _)
LoopFrom(h, pin, v, m, i) ==
    IF i < 8 THEN LoopFrom(LoopBody(h, pin, v, m, i), pin, v, m, i + 1) ELSE h

writePortLoop(h, pt, v, m) == LoopFrom(h, ToByte(pt * 8), v, m, 0)

\* writePort as the preprocessor compiles it for the board
writePort(h, pt, v, m) ==
    IF ARDUINO_PINOUT_OPTIMIZE_defined
    THEN writePortFast(h, pt, v, m)
    ELSE writePortLoop(h, pt, v, m)

(***************************************************************************)
(* Initial states                                                          *)
(***************************************************************************)
\* every register (every pin of the ATmega1280/2560) at the levels of byte x
HwInit(b, x) ==
    IF ATmega328(b)
    THEN [PORTD |-> x, PORTB |-> x, PORTC |-> x, pins |-> [p \in {} |-> 0]]
    ELSE [PORTD |-> 0, PORTB |-> 0, PORTC |-> 0,
          pins |-> [p \in 0..69 |-> Bit(x, p % 8)]]

NoPWMQuery == [defined |-> FALSE, pins |-> {}]

NoCls == [pin |-> 0, digital |-> FALSE, analog |-> FALSE, pwm |-> FALSE,
          servo |-> FALSE, i2c |-> FALSE,
          toDigital |-> 0, toAnalog |-> 0, toPwm |-> 0, toServo |-> 0]

\* the call under study: writePort / readPort (port, value, bitmask) on a board
CallInit(bs, vals) ==
    /\ board \in bs
    /\ port \in 0..(TOTAL_PORTS - 1)
    /\ value \in vals
    /\ bitmask \in Masks
    /\ \E x \in InitBytes : hw = HwInit(board, x)
    /\ pre = hw
    /\ serial = hw
    /\ out = 0
    /\ tmp = 0
    /\ isrCount = 0

Init ==
    /\ CallInit(Boards, Values)
    /\ pc = "start"
    /\ I = 1
    /\ preI = I
    /\ MAX_SERVOS = 0
    /\ hasPWM = NoPWMQuery
    /\ cls = NoCls

(***************************************************************************)
(* Spec: one call of each port primitive, single-threaded                  *)
(***************************************************************************)
WritePort ==
    /\ pc = "start"
    /\ hw' = writePort(hw, port, value, bitmask)
    /\ I' = IF ARDUINO_PINOUT_OPTIMIZE_defined THEN FlagAfterFast(I, port) ELSE I
    /\ pc' = "written"
    /\ UNCHANGED <<board, pre, port, value, bitmask, preI, out, tmp, serial,
                   isrCount, MAX_SERVOS, hasPWM, cls>>

ReadPort ==
    /\ pc \in {"start", "written"}
    /\ out' = readPort(hw, port, bitmask)
    /\ pc' = IF pc = "start" THEN "readFirst" ELSE "readBack"
    /\ UNCHANGED <<board, hw, pre, port, value, bitmask, I, preI, tmp, serial,
                   isrCount, MAX_SERVOS, hasPWM, cls>>

Next == WritePort \/ ReadPort

Spec == Init /\ [][Next]_vars

(***************************************************************************)
(* SpecIsr: the register path statement by statement, with an interrupt    *)
(* handler that may run whenever the global interrupt flag I is set.       *)
(* serial is a history variable: the registers as they would be had every  *)
(* read-modify-write, of writePort and of the handler, been one step.      *)
(***************************************************************************)
InitIsr ==
    /\ CallInit({b \in Boards : ATmega328(b)}, InitBytes)
    /\ pc = "enter"
    /\ I \in {0, 1}
    /\ preI = I
    /\ MAX_SERVOS = 0
    /\ hasPWM = NoPWMQuery
    /\ cls = NoCls

Cli ==
    /\ pc = "enter"
    /\ port \in 0..2
    /\ I' = cli(I)
    /\ pc' = IF port = 0 THEN "readD" ELSE IF port = 1 THEN "readB" ELSE "readC"
    /\ UNCHANGED <<board, hw, pre, port, value, bitmask, preI, out, tmp, serial,
                   isrCount, MAX_SERVOS, hasPWM, cls>>

\* the read of REG in REG = (REG & mask) | val
ReadReg(at, reg, then) ==
    /\ pc = at
    /\ tmp' = hw[reg]
    /\ pc' = then
    /\ UNCHANGED <<board, hw, pre, port, value, bitmask, I, preI, out, serial,
                   isrCount, MAX_SERVOS, hasPWM, cls>>

\* the store to REG in REG = (REG & mask) | val
WriteReg(at, reg, mask, val, then) ==
    /\ pc = at
    /\ hw' = [hw EXCEPT ![reg] = Rmw(tmp, mask, val)]
    /\ serial' = [serial EXCEPT ![reg] = Rmw(@, mask, val)]
    /\ pc' = then
    /\ UNCHANGED <<board, pre, port, value, bitmask, I, preI, out, tmp,
                   isrCount, MAX_SERVOS, hasPWM, cls>>

ReadD == ReadReg("readD", "PORTD", "writeD")

WriteD == WriteReg("writeD", "PORTD", maskD(bitmask), valD(value, bitmask), "sei")

ReadB == ReadReg("readB", "PORTB", "writeB")

WriteB == WriteReg("writeB", "PORTB", maskB(bitmask), valB(value, bitmask), "readC")

ReadC == ReadReg("readC", "PORTC", "writeC")

WriteC ==
    IF port = 1
    THEN WriteReg("writeC", "PORTC", maskC1(bitmask), valC1(value, bitmask), "sei")
    ELSE WriteReg("writeC", "PORTC", maskC2(bitmask), valC2(value, bitmask), "sei")

Sei ==
    /\ pc = "sei"
    /\ I' = sei(I)
    /\ pc' = "done"
    /\ UNCHANGED <<board, hw, pre, port, value, bitmask, preI, out, tmp, serial,
                   isrCount, MAX_SERVOS, hasPWM, cls>>

\* the registers the register path reads and writes for a port
RegsOfPort(pt) ==
    IF pt = 0 THEN {"PORTD"} ELSE IF pt = 1 THEN {"PORTB", "PORTC"}
    ELSE IF pt = 2 THEN {"PORTC"} ELSE {}

\* an interrupt handler that toggles one bit of a register writePort is
\* working on; it is taken only while I is set and the call has not returned,
\* runs to its end before the interrupted code resumes, and its return leaves
\* I set
Isr ==
    /\ I = 1
    /\ pc # "done"
    /\ isrCount < MaxIsr
    /\ \E reg \in RegsOfPort(port), k \in 0..7 :
          /\ hw' = [hw EXCEPT ![reg] = SetBit(@, k, 1 - Bit(@, k))]
          /\ serial' = [serial EXCEPT ![reg] = SetBit(@, k, 1 - Bit(@, k))]
    /\ isrCount' = isrCount + 1
    /\ UNCHANGED <<board, pre, port, value, bitmask, pc, I, preI, out, tmp,
                   MAX_SERVOS, hasPWM, cls>>

NextIsr ==
    Cli \/ ReadD \/ WriteD \/ ReadB \/ WriteB \/ ReadC \/ WriteC \/ Sei \/ Isr

SpecIsr == InitIsr /\ [][NextIsr]_vars

(***************************************************************************)
(* SpecPins: the capability predicates and translators of a board profile  *)
(***************************************************************************)
\* the pins the platform's own digitalPinHasPWM reports (pins_arduino.h)
StandardPWM(b) ==
    IF ATmega328(b) THEN {3, 5, 6, 9, 10, 11} ELSE (2..13) \cup (44..46)

\* the platform's PWM query: none defined, or the platform's standard one
PwmQueries(b) == {NoPWMQuery, [defined |-> TRUE, pins |-> StandardPWM(b)]}

InitPins ==
    /\ board \in Boards
    /\ MAX_SERVOS \in 0..MaxServosTried
    /\ hasPWM \in PwmQueries(board)
    /\ cls = NoCls
    /\ pc = "config"
    /\ port = 0 /\ value = 0 /\ bitmask = 0
    /\ hw = HwInit(board, 0)
    /\ pre = hw /\ serial = hw
    /\ I = 1 /\ preI = 1 /\ out = 0 /\ tmp = 0 /\ isrCount = 0

Classify ==
    /\ pc = "config"
    /\ \E p \in 0..(TOTAL_PINS - 1) :
          cls' = [pin |-> p,
                  digital |-> IS_PIN_DIGITAL(p),
                  analog |-> IS_PIN_ANALOG(p),
                  pwm |-> IS_PIN_PWM(p),
                  servo |-> IS_PIN_SERVO(p),
                  i2c |-> IS_PIN_I2C(p),
                  toDigital |-> PIN_TO_DIGITAL(p),
                  toAnalog |-> PIN_TO_ANALOG(p),
                  toPwm |-> PIN_TO_PWM(p),
                  toServo |-> PIN_TO_SERVO(p)]
    /\ pc' = "classified"
    /\ UNCHANGED <<board, hw, pre, port, value, bitmask, I, preI, out, tmp,
                   serial, isrCount, MAX_SERVOS, hasPWM>>

NextPins == Classify

SpecPins == InitPins /\ [][NextPins]_vars

(***************************************************************************)
(* Properties                                                              *)
(***************************************************************************)
\* native pin q changed its output level during the call
Changed(q) == digitalRead(hw, q) # digitalRead(pre, q)

\* native pin q is pin port*8+i of the port written, with bit i of bitmask set
Requested(q) == \E i \in 0..7 : q = port * 8 + i /\ Bit(bitmask, i) = 1

\* C1: after writePort(port, value, bitmask) as compiled for the board, every
\* native pin keeps its level except the pins port*8+i whose bit i of bitmask
\* is set and for which IS_PIN_DIGITAL is true.
C1_OnlyRequestedDigitalPinsChange ==
    pc = "written" =>
        \A q \in NativePins : Changed(q) => Requested(q) /\ IS_PIN_DIGITAL(q)

\* C2: on the ATmega168/328 profile the register path and the bit-by-bit loop,
\* from the same pin state with the same arguments, leave every native pin at
\* the same level.
C2_FastPathEqualsLoop ==
    pc = "written" /\ ARDUINO_PINOUT_OPTIMIZE_defined =>
        \A q \in NativePins :
            digitalRead(hw, q)
                = digitalRead(writePortLoop(pre, port, value, bitmask), q)

\* C3: writePort(port, value, mask) followed at once by readPort(port, mask)
\* returns the byte whose bit i is bit i of (value & mask) where pin port*8+i
\* is digital-capable and 0 where it is not.
C3_WriteThenReadRoundTrip ==
    pc = "readBack" =>
        \A i \in 0..7 :
            Bit(out, i) = IF IS_PIN_DIGITAL(port * 8 + i)
                          THEN Bit(And8(value, bitmask), i)
                          ELSE 0

\* C3 witness: a read-back in which a digital pin was driven from low to high
\* and reads 1, and a non-digital pin that was asked to go high reads 0
C3_Witness ==
    /\ pc = "readBack"
    /\ \E i \in 0..7 :
          /\ IS_PIN_DIGITAL(port * 8 + i)
          /\ digitalRead(pre, port * 8 + i) = 0
          /\ Bit(out, i) = 1
    /\ \E j \in 0..7 :
          /\ ~IS_PIN_DIGITAL(port * 8 + j)
          /\ Bit(And8(value, bitmask), j) = 1
          /\ Bit(out, j) = 0

\* C4: bit i of readPort(port, bitmask) is 1 exactly when bit i of bitmask is
\* set, IS_PIN_DIGITAL(port*8+i) is true and the native pin reads high;
\* masked-out and non-digital pins contribute 0.
C4_ReadPortBits ==
    pc \in {"readFirst", "readBack"} =>
        \A i \in 0..7 :
            (Bit(out, i) = 1) <=>
                /\ Bit(bitmask, i) = 1
                /\ IS_PIN_DIGITAL(port * 8 + i)
                /\ digitalRead(hw, PIN_TO_DIGITAL(port * 8 + i)) = 1

\* C4 witness: one read in which a high digital pin is reported, a high digital
\* pin is masked out, and a non-digital pin with its mask bit set reads 0
C4_Witness ==
    /\ pc = "readFirst"
    /\ \E i \in 0..7 : Bit(out, i) = 1
    /\ \E j \in 0..7 :
          /\ Bit(bitmask, j) = 0
          /\ IS_PIN_DIGITAL(port * 8 + j)
          /\ digitalRead(hw, port * 8 + j) = 1
          /\ Bit(out, j) = 0
    /\ \E k \in 0..7 :
          /\ Bit(bitmask, k) = 1
          /\ ~IS_PIN_DIGITAL(port * 8 + k)
          /\ Bit(out, k) = 0

\* C5: in the register path every read-modify-write of a port register runs
\* with interrupts disabled: from cli() to sei() the flag is clear, the value
\* read from a register is still the register's content when it is written
\* back, and the registers always equal what the same updates, of writePort
\* and of the handler, give when each is applied in one step (none is lost).
C5_RmwAtomic ==
    /\ pc \in {"readD", "writeD", "readB", "writeB", "readC", "writeC", "sei"}
          => I = 0
    /\ pc = "writeD" => tmp = hw.PORTD
    /\ pc = "writeB" => tmp = hw.PORTB
    /\ pc = "writeC" => tmp = hw.PORTC
    /\ hw = serial

\* C5 witness: a call on port 1 has returned, the handler ran during it and
\* changed PORTC, writePort changed PORTC too, and both updates are there
C5_Witness ==
    /\ pc = "done"
    /\ port = 1
    /\ isrCount > 0
    /\ writePortFast(pre, port, value, bitmask).PORTC # pre.PORTC
    /\ hw.PORTC # writePortFast(pre, port, value, bitmask).PORTC
    /\ hw.PORTC # pre.PORTC

\* C6: writePort changes the level only of native pins port*8+i whose bit i is
\* set in bitmask; unrequested pins of the port and all pins of other ports keep
\* their level, also where ports 1 and 2 share PORTC; with bitmask 0 no pin
\* changes.
C6_OnlyRequestedPinsChange ==
    pc = "written" => \A q \in NativePins : Changed(q) => Requested(q)

\* C6 witness: port 1 changed pin 14 (PORTC bit 0) while pin 16, a pin of port 2
\* in the same register, stayed high
C6_Witness ==
    /\ pc = "written"
    /\ ARDUINO_PINOUT_OPTIMIZE_defined
    /\ port = 1
    /\ Changed(14)
    /\ digitalRead(pre, 16) = 1
    /\ digitalRead(hw, 16) = 1

AnalogPins == {p \in 0..(TOTAL_PINS - 1) : IS_PIN_ANALOG(p)}

\* C7: on every board profile the pins p in [0, TOTAL_PINS) with IS_PIN_ANALOG(p)
\* are exactly TOTAL_ANALOG_PINS many and are consecutive indices.
C7_AnalogPinsCount ==
    /\ Cardinality(AnalogPins) = TOTAL_ANALOG_PINS
    /\ \A a, b \in AnalogPins : \A p \in a..b : p \in AnalogPins

\* C8: whatever the platform's PWM query, IS_PIN_PWM(p) is true exactly when
\* IS_PIN_DIGITAL(p) is true and the query reports PWM for p.
C8_PwmIffDigitalAndQuery ==
    pc = "classified" /\ hasPWM.defined =>
        (cls.pwm <=> (cls.digital /\ cls.pin \in hasPWM.pins))

ServoPins == {p \in 0..(TOTAL_PINS - 1) : IS_PIN_SERVO(p)}

FirstServoPin == CHOOSE p \in ServoPins : \A q \in ServoPins : p <= q

\* C9: for a servo-capable pin p, PIN_TO_SERVO(p) is p minus the smallest
\* servo-capable pin, a slot in [0, MAX_SERVOS).
C9_ServoSlotZeroBased ==
    pc = "classified" /\ cls.servo =>
        /\ cls.toServo = cls.pin - FirstServoPin
        /\ cls.toServo \in 0..(MAX_SERVOS - 1)

\* C10: writePort returns with the global interrupt flag as it found it.
C10_InterruptFlagPreserved ==
    pc = "done" => I = preI

====
